---- MODULE Spec2Model ----
(***************************************************************************)
(* Model of the notes application in src/unnamed/part_000 (App.jsx):       *)
(* the NotesApp component's state (notes, formData, file, busy), its three *)
(* asynchronous workflows fetchNotes, createNote and deleteNote, the       *)
(* buttons that start them, the Authenticator that mounts and unmounts     *)
(* NotesApp, and the remote store's Note records.  The blob store is only  *)
(* written by the application (getUrl signs a path without reading it), so *)
(* its calls are recorded and its contents are not.                        *)
(*                                                                         *)
(* One action is one run of JavaScript between two awaits: a handler up to *)
(* its first await, or the continuation that resumes when a remote call    *)
(* returns.  A workflow in flight is a record in `tasks`; it keeps the     *)
(* values its closure captured (formData, file, the note) and the calls it *)
(* has issued.  A continuation of a component that has been unmounted      *)
(* still issues its remote calls, but its setState calls have no effect.   *)
(*                                                                         *)
(* The application is modelled as the production build runs it: React's    *)
(* development-only double invocation of effects under StrictMode          *)
(* (src/src/main.jsx) is not modelled.                                     *)
(***************************************************************************)
EXTENDS Integers, Sequences, FiniteSets, TLC

\* ---------------------------------------------------------------- bounds
\* Ids the store hands out: 1..MaxId.
MaxId == 2
\* Workflows of unmounted components that may still be in flight when a user
\* signs in.
MaxStale == 1

\* ---------------------------------------------------------------- values
NoId == 0
NoPath == <<>>
NoUrl == <<>>
NoFile == ""
Titles == {"", "A"}
Contents == {"", "B"}
Files == {NoFile, "photo.png"}

\* What a remote call can do: return its data, reject, or (data client only)
\* resolve with {data: null, errors} instead of rejecting.
DataOutcomes == {"ok", "throw", "nodata"}
BlobOutcomes == {"ok", "throw"}

\* The absent record: `created.data` / `updated.data` when the response
\* carries no data.
NullNote ==
  [id |-> NoId, title |-> "", content |-> "", imagePath |-> NoPath, imageUrl |-> NoUrl]

\* A Note record as the data client returns it (no imageUrl).
Note(id, title, content, path) ==
  [id |-> id, title |-> title, content |-> content, imagePath |-> path, imageUrl |-> NoUrl]

\* `images/${newNote.id}-${file.name}`
ImagePath_NoId(id, name) == <<"images", NoId, name>>
ImagePath(id, name) == <<"images", id, name>>

\* The signed URL getUrl resolves for a path.
SignedUrl(path) == <<"signed">> \o path

\* { ...n, imageUrl: url }
WithUrl_Dropped(n, url) == n
WithUrl(n, url) == [n EXCEPT !.imageUrl = url]

\* !formData.title || !formData.content
Invalid_TitleOnly(fd) == fd.title = ""
Invalid(fd) == fd.title = "" \/ fd.content = ""

\* setNotes((prev) => [...prev, newNote])
AppendNote_Front(prev, n) == <<n>> \o prev
AppendNote_Twice(prev, n) == prev \o <<n, n>>

AppendNote_Signed(prev, n) ==
  Append(prev, IF n.imagePath # NoPath
               THEN [n EXCEPT !.imageUrl = <<"signed">> \o n.imagePath]
               ELSE n)

AppendNote(prev, n) == Append(prev, n)

\* setNotes((prev) => prev.filter((n) => n.id !== note.id))
RemoveNote_Keep(prev, id) == SelectSeq(prev, LAMBDA n : n.id = id)

RemoveNote(prev, id) == SelectSeq(prev, LAMBDA n : n.id # id)

\* The remote calls deleteNote makes for a note, in order.
DeleteCalls_RecordFirst(note) ==
  IF note.imagePath # NoPath THEN <<"delete", "remove">> ELSE <<"delete">>
DeleteCalls(note) ==
  IF note.imagePath # NoPath THEN <<"remove", "delete">> ELSE <<"delete">>

\* fetchNotes keeps the list response in a local (`items`) until every URL
\* is resolved: the in-memory list is not touched when the list call returns.
NotesOnList_Swap(prev, items) == items
NotesOnList(prev, items) == prev

\* createNote keeps the created record in a local (`newNote`) until the
\* upload and the update are done.
NotesOnCreated_Append(prev, n) == Append(prev, n)
NotesOnCreated(prev, n) == prev

\* finally { setBusy(false) }, of fetchNotes, createNote and deleteNote.
FetchFinallyBusy_Skip(failed) == failed
FetchFinallyBusy(failed) == FALSE
CreateFinallyBusy(failed) == FALSE
DeleteFinallyBusy(failed) == FALSE


\* ----------------------------------------------------------------- state
VARIABLES
  user,      \* a current user exists (Authenticator's `user`)
  mounted,   \* NotesApp is rendered
  notes,     \* useState([])        the in-memory list
  formData,  \* useState({title: '', content: ''})
  file,      \* useState(null)      the file selection (its name)
  busy,      \* useState(false)
  records,   \* the store's Note records, in store order
  nextId,    \* the id the store assigns next
  tasks,     \* the workflows in flight
  last       \* the workflow that ended most recently (history)

vars ==
  <<user, mounted, notes, formData, file, busy, records, nextId, tasks, last>>

ui == <<notes, formData, file, busy, mounted>>
store == <<records, nextId>>

EmptyForm == [title |-> "", content |-> ""]
Draft(fd, f) == [title |-> fd.title, content |-> fd.content, file |-> f]
NoAfter ==
  [id |-> NoId, title |-> "", content |-> "", file |-> NoFile, partial |-> FALSE]

\* A remote call a workflow issued: its operation and arguments, how it
\* returned ("pending" until it does), the url or the records it returned,
\* and whether a current user existed when it was issued.
Call(op, id, path, title, content) ==
  [op |-> op, id |-> id, path |-> path, title |-> title, content |-> content,
   res |-> "pending", url |-> NoUrl, data |-> <<>>, user |-> user]

Returned(calls, k, out) == [calls EXCEPT ![k].res = out]

AllOk(calls) == \A k \in DOMAIN calls : calls[k].res = "ok"

\* The component instance a workflow belongs to is still rendered: only
\* then do its setState calls change anything.
Live(t) == mounted /\ t.live

NoLast ==
  [kind |-> "none", live |-> FALSE, outcome |-> "none", alert |-> "none",
   calls |-> <<>>, title |-> "", content |-> "", file |-> NoFile,
   note |-> NullNote, notes0 |-> <<>>, notes1 |-> <<>>,
   draftPrev |-> Draft(EmptyForm, NoFile), draft1 |-> Draft(EmptyForm, NoFile),
   busyPrev |-> FALSE, busy1 |-> FALSE, user |-> FALSE, after |-> NoAfter,
   confirmed |-> TRUE]

\* A create or a delete that failed after one of its calls had taken effect.
Partial(l) ==
  /\ l.kind \in {"create", "delete"}
  /\ l.live
  /\ l.outcome = "failed"
  /\ \E k \in DOMAIN l.calls : l.calls[k].res = "ok"

\* The preceding workflow, when nothing else is in flight and it was a create
\* whose calls all returned a record, or a create or delete that failed half
\* way: what a fetch started now follows.
Following ==
  CASE tasks = {} /\ last.kind = "create" /\ last.outcome = "done"
                  /\ AllOk(last.calls) ->
         [id |-> last.note.id, title |-> last.title, content |-> last.content,
          file |-> last.file, partial |-> FALSE]
    [] tasks = {} /\ Partial(last) -> [NoAfter EXCEPT !.partial = TRUE]
    [] OTHER -> NoAfter

NewTask(kind, calls, fd, f, note, prev, after) ==
  [kind |-> kind, live |-> TRUE, calls |-> calls, title |-> fd.title,
   content |-> fd.content, file |-> f, note |-> note, items |-> <<>>,
   notes0 |-> prev, after |-> after, confirmed |-> TRUE]

Init ==
  /\ user = FALSE
  /\ mounted = FALSE
  /\ notes = <<>>
  /\ formData = EmptyForm
  /\ file = NoFile
  /\ busy = FALSE
  /\ records = <<>>
  /\ nextId = 1
  /\ tasks = {}
  /\ last = NoLast

\* ------------------------------------------------- ends of a workflow
\* The record of an ended workflow; the primed variables are its effect.
Ended(t, live, calls, outcome, alert, note) ==
  [kind |-> t.kind, live |-> live, outcome |-> outcome, alert |-> alert,
   calls |-> calls, title |-> t.title, content |-> t.content, file |-> t.file,
   note |-> note, notes0 |-> t.notes0, notes1 |-> notes',
   draftPrev |-> Draft(formData, file), draft1 |-> Draft(formData', file'),
   busyPrev |-> busy, busy1 |-> busy', user |-> user, after |-> t.after,
   confirmed |-> t.confirmed]

\* A handler that returns before its try block: nothing is set, no task starts.
Returns(kind, outcome, alert, note, confirmed) ==
  /\ UNCHANGED <<user, mounted, notes, formData, file, busy, store, tasks>>
  /\ last' = [NoLast EXCEPT !.kind = kind, !.live = TRUE, !.outcome = outcome,
                !.alert = alert, !.title = formData.title,
                !.content = formData.content, !.file = file, !.note = note,
                !.notes0 = notes, !.notes1 = notes',
                !.draftPrev = Draft(formData, file),
                !.draft1 = Draft(formData', file'),
                !.busyPrev = busy, !.busy1 = busy', !.user = user,
                !.confirmed = confirmed]

\* The last continuation of workflow t: the try block's final setState calls
\* (or none, after catch), then finally.  `crash` is a render that throws.
Finish(t, calls, outcome, alert, note, notes2, form2, file2, busy2, crash) ==
  /\ tasks' = tasks \ {t}
  /\ IF Live(t)
     THEN /\ notes' = notes2
          /\ formData' = form2
          /\ file' = file2
          /\ busy' = busy2
          /\ mounted' = ~crash
     ELSE UNCHANGED ui
  /\ last' = Ended(t, Live(t), calls, outcome, alert, note)
  /\ UNCHANGED user

\* A continuation of t that awaits the next call.
Continue(t, t2, notes2) ==
  /\ tasks' = (tasks \ {t}) \cup {t2}
  /\ notes' = IF Live(t) THEN notes2 ELSE notes
  /\ last' = NoLast
  /\ UNCHANGED <<user, mounted, formData, file, busy>>

\* ------------------------------------------------------- Authenticator
\* A user signs in: NotesApp is mounted with fresh state and its effect
\* runs `if (user) fetchNotes()`.
SignIn ==
  /\ ~user
  /\ Cardinality(tasks) <= MaxStale
  /\ user' = TRUE
  /\ mounted' = TRUE
  /\ notes' = <<>>
  /\ formData' = EmptyForm
  /\ file' = NoFile
  /\ busy' = TRUE
  /\ tasks' = tasks \cup
       {NewTask("fetch",
               <<[Call("list", NoId, NoPath, "", "") EXCEPT !.user = TRUE]>>,
               EmptyForm, NoFile, NullNote, <<>>, Following)}
  /\ last' = NoLast
  /\ UNCHANGED store

\* What is left of a workflow whose component is unmounted: its calls and the
\* values its closure reads; the state it would have set is gone.
Orphaned(t) == [t EXCEPT !.live = FALSE, !.notes0 = <<>>, !.after = NoAfter]

\* <button onClick={signOut}>: the user is gone and NotesApp is unmounted;
\* its state is discarded.  Nothing cancels the workflows in flight.
signOut ==
  /\ mounted
  /\ user' = FALSE
  /\ mounted' = FALSE
  /\ notes' = <<>>
  /\ formData' = EmptyForm
  /\ file' = NoFile
  /\ busy' = FALSE
  /\ tasks' = {Orphaned(t) : t \in tasks}
  /\ last' = NoLast
  /\ UNCHANGED store

\* ------------------------------------------------------------ the form
SetTitle(v) ==
  /\ mounted
  /\ formData.title # v
  /\ formData' = [formData EXCEPT !.title = v]
  /\ last' = NoLast
  /\ UNCHANGED <<user, mounted, notes, file, busy, store, tasks>>

SetContent(v) ==
  /\ mounted
  /\ formData.content # v
  /\ formData' = [formData EXCEPT !.content = v]
  /\ last' = NoLast
  /\ UNCHANGED <<user, mounted, notes, file, busy, store, tasks>>

SetFile(f) ==
  /\ mounted
  /\ file # f
  /\ file' = f
  /\ last' = NoLast
  /\ UNCHANGED <<user, mounted, notes, formData, busy, store, tasks>>

Clear ==
  /\ mounted
  /\ ~busy
  /\ formData' = EmptyForm
  /\ file' = NoFile
  /\ last' = NoLast
  /\ UNCHANGED <<user, mounted, notes, busy, store, tasks>>


\* ---------------------------------------------------------- fetchNotes
\* <button onClick={fetchNotes} disabled={busy}>Refresh</button>:
\* setBusy(true), then await client.models.Note.list().
fetchNotes ==
  /\ mounted
  /\ ~busy
  /\ busy' = TRUE
  /\ tasks' = tasks \cup
       {NewTask("fetch", <<Call("list", NoId, NoPath, "", "")>>,
                EmptyForm, NoFile, NullNote, notes, Following)}
  /\ last' = NoLast
  /\ UNCHANGED <<user, mounted, notes, formData, file, store>>

\* if (n.imagePath)
HasPath_Always(n) == TRUE

HasPath(n) == n.imagePath # NoPath

\* items.map(async (n) => { if (n.imagePath) { await getUrl(...) } ... }):
\* one getUrl call per record with an imagePath, all issued at once.
UrlCalls(items) ==
  LET sel == SelectSeq(items, HasPath)
  IN  [k \in 1..Len(sel) |-> Call("getUrl", sel[k].id, sel[k].imagePath, "", "")]

Hydrated_Reversed(items, calls) ==
  [i \in 1..Len(items) |->
     LET n == items[Len(items) + 1 - i]
     IN  IF n.imagePath # NoPath
         THEN LET k == CHOOSE k \in DOMAIN calls :
                         calls[k].op = "getUrl" /\ calls[k].id = n.id
              IN  [n EXCEPT !.imageUrl = calls[k].url]
         ELSE n]

\* withUrls, once every getUrl of `calls` has returned a url.
Hydrated(items, calls) ==
  [i \in 1..Len(items) |->
     IF HasPath(items[i])
     THEN LET k == CHOOSE k \in DOMAIN calls :
                     calls[k].op = "getUrl" /\ calls[k].id = items[i].id
          IN  WithUrl(items[i], calls[k].url)
     ELSE items[i]]

\* catch { console.error; alert } finally { setBusy(false) } of fetchNotes.
FetchFailed(t, calls) ==
  Finish(t, calls, "failed", "fetch", NullNote,
         notes, formData, file, FetchFinallyBusy(TRUE), FALSE)

\* setNotes(withUrls), then finally.
FetchDone(t, calls, withUrls) ==
  Finish(t, calls, "done", "none", NullNote,
         withUrls, formData, file, FetchFinallyBusy(FALSE), FALSE)

\* client.models.Note.list() returns.
ListReturn(t, out) ==
  /\ t.kind = "fetch"
  /\ Len(t.calls) = 1
  /\ t.calls[1].res = "pending"
  /\ UNCHANGED store
  /\ LET \* resp?.data ?? []
         items == IF out = "ok" THEN records ELSE <<>>
         calls == [Returned(t.calls, 1, out) EXCEPT ![1].data = items]
         urlCalls == UrlCalls(items)
     IN  CASE out = "throw" -> FetchFailed(t, calls)
           [] out # "throw" /\ urlCalls = <<>> -> FetchDone(t, calls, items)
           [] OTHER ->
                Continue(t, [t EXCEPT !.calls = calls \o urlCalls, !.items = items],
                         NotesOnList(notes, items))

\* One getUrl returns.  Promise.all rejects on the first rejection and
\* resolves when the last url arrives.
UrlReturn(t, k, out) ==
  /\ t.kind = "fetch"
  /\ k \in DOMAIN t.calls
  /\ t.calls[k].op = "getUrl"
  /\ t.calls[k].res = "pending"
  /\ UNCHANGED store
  /\ LET calls == [t.calls EXCEPT ![k].res = out,
                                  ![k].url = IF out = "ok" THEN SignedUrl(t.calls[k].path)
                                             ELSE NoUrl]
     IN  CASE out = "throw" -> FetchFailed(t, calls)
           [] out = "ok" /\ \A j \in DOMAIN calls : calls[j].res = "ok" ->
                FetchDone(t, calls, Hydrated(t.items, calls))
           [] OTHER -> Continue(t, [t EXCEPT !.calls = calls], notes)

\* ---------------------------------------------------------- createNote
CreateFailed(t, calls) ==
  Finish(t, calls, "failed", "create", t.note,
         notes, formData, file, CreateFinallyBusy(TRUE), FALSE)

\* setNotes((prev) => [...prev, newNote]); setFormData({title: '', content: ''});
\* setFile(null); then finally.  A null newNote makes the next render throw
\* on n.id, which unmounts the application.
CreateDone(t, calls, newNote) ==
  Finish(t, calls, "done", "none", newNote,
         AppendNote(notes, newNote), EmptyForm, NoFile, CreateFinallyBusy(FALSE),
         newNote = NullNote)

\* <button onClick={createNote} disabled={busy}>Save Note</button>
createNote ==
  /\ mounted
  /\ ~busy
  /\ IF Invalid(formData)
     THEN \* alert('Please provide a title and content'); return
          Returns("create", "rejected", "validation", NullNote, TRUE)
     ELSE \* setBusy(true); await client.models.Note.create({title, content})
          /\ busy' = TRUE
          /\ tasks' = tasks \cup
               {NewTask("create",
                        <<Call("create", NoId, NoPath, formData.title, formData.content)>>,
                        formData, file, NullNote, notes, NoAfter)}
          /\ last' = NoLast
          /\ UNCHANGED <<user, mounted, notes, formData, file, store>>

\* client.models.Note.create() returns; the store assigns the id.
CreateReturn(t, out) ==
  /\ t.kind = "create"
  /\ Len(t.calls) = 1
  /\ t.calls[1].res = "pending"
  /\ out = "ok" => nextId <= MaxId
  /\ LET calls == Returned(t.calls, 1, out)
         created == Note(nextId, t.title, t.content, NoPath)
         \* let newNote = created.data
         newNote == IF out = "ok" THEN created ELSE NullNote
     IN  /\ IF out = "ok"
            THEN /\ records' = Append(records, created)
                 /\ nextId' = nextId + 1
            ELSE UNCHANGED store
         /\ CASE out = "throw" -> CreateFailed(t, calls)
              \* if (file && newNote)
              [] out # "throw" /\ (t.file = NoFile \/ newNote = NullNote) ->
                   CreateDone(t, calls, newNote)
              [] OTHER ->
                   Continue(t, [t EXCEPT !.note = newNote,
                                  !.calls = calls \o
                                    <<Call("upload", NoId,
                                           ImagePath(newNote.id, t.file), "", "")>>],
                            NotesOnCreated(notes, newNote))

\* uploadData(...).result returns; result.path is the path uploaded to.
UploadReturn(t, out) ==
  /\ t.kind = "create"
  /\ Len(t.calls) = 2
  /\ t.calls[2].res = "pending"
  /\ LET calls == Returned(t.calls, 2, out)
         path == t.calls[2].path
     IN  /\ UNCHANGED store
         /\ IF out = "throw"
            THEN CreateFailed(t, calls)
            ELSE Continue(t, [t EXCEPT !.calls = calls \o
                                <<Call("update", t.note.id, path, "", "")>>],
                          notes)

\* client.models.Note.update({id, imagePath}) returns.
UpdateReturn(t, out) ==
  /\ t.kind = "create"
  /\ Len(t.calls) = 3
  /\ t.calls[3].res = "pending"
  /\ out = "ok" => \E i \in DOMAIN records : records[i].id = t.calls[3].id
  /\ LET calls == Returned(t.calls, 3, out)
         updated == [j \in DOMAIN records |->
                       IF records[j].id = t.calls[3].id
                       THEN [records[j] EXCEPT !.imagePath = t.calls[3].path]
                       ELSE records[j]]
         \* newNote = updated.data
         newNote == IF out = "ok"
                    THEN updated[CHOOSE i \in DOMAIN records : records[i].id = t.calls[3].id]
                    ELSE NullNote
     IN  /\ records' = IF out = "ok" THEN updated ELSE records
         /\ UNCHANGED nextId
         /\ IF out = "throw"
            THEN CreateFailed(t, calls)
            ELSE CreateDone(t, calls, newNote)

\* ---------------------------------------------------------- deleteNote
DeleteCall(op, note) ==
  IF op = "remove" THEN Call("remove", NoId, note.imagePath, "", "")
  ELSE Call("delete", note.id, NoPath, "", "")

DeleteFailed(t, calls) ==
  Finish(t, calls, "failed", "delete", t.note,
         notes, formData, file, DeleteFinallyBusy(TRUE), FALSE)

\* After a call of deleteNote returned: the next call, or
\* setNotes(prev.filter(...)) and finally.
DeleteNext(t, calls) ==
  LET plan == DeleteCalls(t.note)
  IN  IF Len(calls) < Len(plan)
      THEN Continue(t, [t EXCEPT !.calls =
                          calls \o <<DeleteCall(plan[Len(calls) + 1], t.note)>>],
                    notes)
      ELSE Finish(t, calls, "done", "none", t.note,
                  RemoveNote(notes, t.note.id), formData, file,
                  DeleteFinallyBusy(FALSE), FALSE)

\* if (!confirm('Delete this note?')) return
Declined_Never(confirmed) == FALSE

Declined(confirmed) == ~confirmed

\* <button onClick={() => deleteNote(n)} disabled={busy}>Delete</button>
deleteNote(i, confirmed) ==
  /\ mounted
  /\ ~busy
  /\ i \in DOMAIN notes
  /\ IF Declined(confirmed)
     THEN Returns("delete", "declined", "none", notes[i], confirmed)
     ELSE /\ busy' = TRUE
          /\ tasks' = tasks \cup
               {[NewTask("delete",
                         <<DeleteCall(DeleteCalls(notes[i])[1], notes[i])>>,
                         EmptyForm, NoFile, notes[i], notes, NoAfter)
                   EXCEPT !.confirmed = confirmed]}
          /\ last' = NoLast
          /\ UNCHANGED <<user, mounted, notes, formData, file, store>>

\* remove({path: note.imagePath}) returns.
RemoveReturn(t, out) ==
  /\ t.kind = "delete"
  /\ LET k == Len(t.calls)
         calls == Returned(t.calls, k, out)
     IN  /\ t.calls[k].op = "remove"
         /\ t.calls[k].res = "pending"
         /\ UNCHANGED store
         /\ IF out = "throw" THEN DeleteFailed(t, calls) ELSE DeleteNext(t, calls)

\* client.models.Note.delete({id: note.id}) returns; its response is not read.
DeleteReturn(t, out) ==
  /\ t.kind = "delete"
  /\ LET k == Len(t.calls)
         calls == Returned(t.calls, k, out)
     IN  /\ t.calls[k].op = "delete"
         /\ t.calls[k].res = "pending"
         /\ out = "ok" => \E i \in DOMAIN records : records[i].id = t.calls[k].id
         /\ records' = IF out = "ok"
                       THEN SelectSeq(records, LAMBDA r : r.id # t.calls[k].id)
                       ELSE records
         /\ UNCHANGED nextId
         /\ IF out = "throw" THEN DeleteFailed(t, calls) ELSE DeleteNext(t, calls)

\* ------------------------------------------------------- specification
Next ==
  \/ SignIn
  \/ signOut
  \/ \E v \in Titles : SetTitle(v)
  \/ \E v \in Contents : SetContent(v)
  \/ \E f \in Files : SetFile(f)
  \/ Clear
  \/ fetchNotes
  \/ createNote
  \/ \E i \in 1..(MaxId + 1), confirmed \in BOOLEAN : deleteNote(i, confirmed)
  \/ \E t \in tasks, out \in DataOutcomes : ListReturn(t, out)
  \/ \E t \in tasks, k \in 2..(MaxId + 1), out \in BlobOutcomes : UrlReturn(t, k, out)
  \/ \E t \in tasks, out \in DataOutcomes : CreateReturn(t, out)
  \/ \E t \in tasks, out \in BlobOutcomes : UploadReturn(t, out)
  \/ \E t \in tasks, out \in DataOutcomes : UpdateReturn(t, out)
  \/ \E t \in tasks, out \in BlobOutcomes : RemoveReturn(t, out)
  \/ \E t \in tasks, out \in DataOutcomes : DeleteReturn(t, out)

Spec == Init /\ [][Next]_vars


\* ================================================================ claims
\* The workflows of the rendered component that are in flight.
LiveTasks == {t \in tasks : Live(t)}

\* C1: at no time are two of the workflows fetch, create and delete in
\* flight together.
C1_AtMostOneInFlight == Cardinality(tasks) <= 1

\* C2: whenever no workflow of the rendered component is in flight, busy is
\* false: every fetch, create and delete leaves busy false when it ends,
\* by success or by failure.
C2_BusyReleased ==
  /\ LiveTasks = {} => busy = FALSE
  /\ last.kind # "none" /\ last.live => last.busy1 = FALSE

C2_Witness ==
  /\ mounted
  /\ LiveTasks = {}
  /\ last.kind = "fetch"
  /\ last.live
  /\ last.outcome = "failed"
  /\ last.busyPrev = TRUE

\* C3: a fetch is all-or-nothing on the in-memory list: while it is in
\* flight the list is the list before the fetch, and when the list call or
\* any signed-URL resolution fails the list is still that list and busy is
\* false.
C3_FetchAllOrNothing ==
  /\ \A t \in LiveTasks : t.kind = "fetch" => notes = t.notes0
  /\ last.kind = "fetch" /\ last.live /\ last.outcome = "failed" =>
       /\ notes = last.notes0
       /\ last.notes1 = last.notes0
       /\ busy = FALSE

\* A fetch over a non-empty list that failed at one getUrl after another
\* getUrl had returned its url.
C3_Witness ==
  /\ last.kind = "fetch"
  /\ last.live
  /\ last.outcome = "failed"
  /\ last.notes0 # <<>>
  /\ \E j, k \in DOMAIN last.calls :
       /\ last.calls[j].op = "getUrl" /\ last.calls[j].res = "ok"
       /\ last.calls[k].op = "getUrl" /\ last.calls[k].res = "throw"

\* C4: create with an empty title or an empty content issues no remote
\* call, alerts the validation error and leaves the list, the form fields,
\* the file selection and busy unchanged; no create with an empty title or
\* content ever reaches its remote calls.
C4_EmptyDraftRejected ==
  /\ \A t \in tasks : t.kind = "create" => t.title # "" /\ t.content # ""
  /\ last.kind = "create" =>
       IF last.title = "" \/ last.content = ""
       THEN /\ last.outcome = "rejected"
            /\ last.alert = "validation"
            /\ last.calls = <<>>
            /\ last.notes1 = last.notes0
            /\ last.draft1 = last.draftPrev
            /\ last.busy1 = last.busyPrev
            /\ tasks = {t \in tasks : ~Live(t)}
       ELSE last.outcome # "rejected"

C4_Witness ==
  /\ last.kind = "create"
  /\ last.outcome = "rejected"
  /\ last.title = "A"
  /\ last.content = ""
  /\ last.file # NoFile
  /\ notes # <<>>

\* The calls of a delete of `note`, as far as they have been issued.
DeleteOrder(note, calls) ==
  IF note.imagePath # NoPath
  THEN /\ Len(calls) \in {1, 2}
       /\ calls[1].op = "remove"
       /\ calls[1].path = note.imagePath
       /\ Len(calls) = 2 =>
            /\ calls[1].res = "ok"
            /\ calls[2].op = "delete"
            /\ calls[2].id = note.id
  ELSE /\ Len(calls) = 1
       /\ calls[1].op = "delete"
       /\ calls[1].id = note.id

\* C5: a delete of a note with imagePath calls blob-delete on that path and,
\* only after that has returned, record-delete on the note's id; a delete of
\* a note without imagePath calls record-delete only.
C5_DeleteCallOrder ==
  /\ \A t \in tasks : t.kind = "delete" => DeleteOrder(t.note, t.calls)
  /\ last.kind = "delete" /\ last.outcome # "declined" =>
       /\ DeleteOrder(last.note, last.calls)
       /\ last.outcome = "done" =>
            Len(last.calls) = IF last.note.imagePath # NoPath THEN 2 ELSE 1

C5_Witness ==
  /\ last.kind = "delete"
  /\ last.outcome = "done"
  /\ last.note.imagePath # NoPath
  /\ Len(last.calls) = 2
  /\ AllOk(last.calls)

\* The calls of a create of draft (title, content, f), as far as they have
\* been issued.
CreateOrder(title, content, f, calls) ==
  /\ Len(calls) \in {1, 2, 3}
  /\ calls[1].op = "create"
  /\ calls[1].title = title
  /\ calls[1].content = content
  /\ Len(calls) >= 2 =>
       /\ f # NoFile
       /\ calls[1].res = "ok"
       /\ calls[2].op = "upload"
       /\ \E id \in 1..(nextId - 1) : calls[2].path = <<"images", id, f>>
  /\ Len(calls) = 3 =>
       /\ calls[2].res = "ok"
       /\ calls[3].op = "update"
       /\ calls[3].path = calls[2].path
       /\ calls[2].path = <<"images", calls[3].id, f>>

\* C6: a create with a file selected calls record-create, then one upload to
\* images/{id}-{filename} with the id the store gave the new record, then
\* one record-update with that id and that path; with no file selected it
\* calls record-create only.
C6_CreateCalls ==
  /\ \A t \in tasks : t.kind = "create" =>
       /\ CreateOrder(t.title, t.content, t.file, t.calls)
       /\ Len(t.calls) >= 2 => t.calls[2].path = <<"images", t.note.id, t.file>>
       /\ Len(t.calls) >= 2 => t.note.title = t.title /\ t.note.content = t.content
  /\ last.kind = "create" /\ last.outcome # "rejected" =>
       /\ CreateOrder(last.title, last.content, last.file, last.calls)
       /\ last.outcome = "done" /\ AllOk(last.calls) =>
            /\ Len(last.calls) = IF last.file # NoFile THEN 3 ELSE 1
            /\ last.file # NoFile =>
                 /\ last.calls[3].id = last.note.id
                 /\ last.note.imagePath = <<"images", last.note.id, last.file>>

C6_Witness ==
  /\ last.kind = "create"
  /\ last.outcome = "done"
  /\ last.file = "photo.png"
  /\ AllOk(last.calls)
  /\ Len(last.calls) = 3
  /\ last.note.id = 2

\* C7: a successful create followed by a successful fetch yields a list
\* that holds a note with the created title and content, and that note has
\* an imagePath and an imageUrl exactly when a file was selected at create.
C7_CreateThenFetch ==
  last.kind = "fetch" /\ last.live /\ last.outcome = "done" /\ AllOk(last.calls)
    /\ last.after.id # NoId =>
      \E i \in DOMAIN notes :
        /\ notes[i].id = last.after.id
        /\ notes[i].title = last.after.title
        /\ notes[i].content = last.after.content
        /\ notes[i].imagePath # NoPath <=> last.after.file # NoFile
        /\ notes[i].imageUrl # NoUrl <=> last.after.file # NoFile

C7_Witness ==
  /\ last.kind = "fetch"
  /\ last.live
  /\ last.outcome = "done"
  /\ AllOk(last.calls)
  /\ last.after.id # NoId
  /\ last.after.file # NoFile
  /\ Len(notes) = 2

\* C8: a successful create appends exactly one entry at the end of the list,
\* leaves the prior entries and their order unchanged and empties title,
\* content and the file selection; with no file the entry carries the
\* submitted title and content and no imagePath.
C8_CreateAppends ==
  last.kind = "create" /\ last.live /\ last.outcome = "done" /\ AllOk(last.calls) =>
    /\ notes = last.notes1
    /\ Len(notes) = Len(last.notes0) + 1
    /\ SubSeq(notes, 1, Len(last.notes0)) = last.notes0
    /\ notes[Len(notes)] = last.note
    /\ last.note.id # NoId
    /\ formData = EmptyForm
    /\ file = NoFile
    /\ last.file = NoFile =>
         /\ last.note.title = last.title
         /\ last.note.content = last.content
         /\ last.note.imagePath = NoPath
    /\ last.notes0 = <<>> => Len(notes) = 1

C8_Witness ==
  /\ last.kind = "create"
  /\ last.live
  /\ last.outcome = "done"
  /\ AllOk(last.calls)
  /\ last.file = NoFile
  /\ last.notes0 # <<>>
  /\ last.draftPrev.title # ""

\* C9: when a remote call of create rejects, that call is the last the
\* create issues, the list is the list before the create, and the ending
\* create leaves title, content and the file selection as they were, also
\* when the record already exists in the store.
C9_CreateFailureKeepsState ==
  /\ \A t \in LiveTasks : t.kind = "create" => notes = t.notes0
  /\ last.kind = "create" /\ last.outcome = "failed" =>
       /\ last.calls[Len(last.calls)].res = "throw"
       /\ \A k \in 1..(Len(last.calls) - 1) : last.calls[k].res = "ok"
       /\ last.live =>
            /\ notes = last.notes0
            /\ last.notes1 = last.notes0
            /\ last.draft1 = last.draftPrev
            /\ Draft(formData, file) = last.draftPrev

\* A create that failed at its upload: the record is in the store and not
\* in the list, and the draft is still there.
C9_Witness ==
  /\ last.kind = "create"
  /\ last.live
  /\ last.outcome = "failed"
  /\ Len(last.calls) = 2
  /\ \E i \in DOMAIN records : records[i].id = last.note.id
  /\ \A i \in DOMAIN notes : notes[i].id # last.note.id
  /\ formData.title = last.title
  /\ file = last.file

\* C10: no step of a workflow (a remote call, or the continuation that ends
\* it) executes while no current user exists.
C10_NoStepWithoutUser ==
  /\ \A t \in tasks : \A k \in DOMAIN t.calls : t.calls[k].user
  /\ last.kind # "none" =>
       /\ last.user
       /\ \A k \in DOMAIN last.calls : last.calls[k].user

\* C11: an entry of the list has an imageUrl only if it has an imagePath and
\* a getUrl call for that path succeeded in the fetch that produced the
\* entry; no create or update call, and so no record of the store, carries
\* an imageUrl.
C11_UrlOnlyFromFetch ==
  /\ \A i \in DOMAIN notes : notes[i].imageUrl # NoUrl =>
       /\ notes[i].imagePath # NoPath
       /\ notes[i].imageUrl = <<"signed">> \o notes[i].imagePath
  /\ last.kind = "fetch" /\ last.live /\ last.outcome = "done" =>
       \A i \in DOMAIN notes : notes[i].imageUrl # NoUrl =>
         \E k \in DOMAIN last.calls :
           /\ last.calls[k].op = "getUrl"
           /\ last.calls[k].res = "ok"
           /\ last.calls[k].path = notes[i].imagePath
           /\ last.calls[k].url = notes[i].imageUrl
  /\ \A t \in tasks : \A k \in DOMAIN t.calls :
       t.calls[k].op \in {"create", "update"} => t.calls[k].url = NoUrl
  /\ \A k \in DOMAIN last.calls :
       last.calls[k].op \in {"create", "update"} => last.calls[k].url = NoUrl
  /\ \A i \in DOMAIN records : records[i].imageUrl = NoUrl

\* A fetch that ended with one hydrated entry and one entry without image.
C11_Witness ==
  /\ last.kind = "fetch"
  /\ last.live
  /\ last.outcome = "done"
  /\ \E i \in DOMAIN notes : notes[i].imageUrl # NoUrl
  /\ \E i \in DOMAIN notes : notes[i].imagePath = NoPath

\* C12: when the user declines the confirmation of a delete, no remote call
\* is issued (neither remove nor Note.delete) and the list, the form state
\* and busy are unchanged.
C12_DeclinedDeleteDoesNothing ==
  /\ \A t \in tasks : t.kind = "delete" => t.confirmed
  /\ last.kind = "delete" =>
       IF last.confirmed
       THEN last.outcome # "declined"
       ELSE /\ last.outcome = "declined"
            /\ last.calls = <<>>
            /\ last.notes1 = last.notes0
            /\ notes = last.notes0
            /\ last.draft1 = last.draftPrev
            /\ Draft(formData, file) = last.draftPrev
            /\ last.busy1 = last.busyPrev
            /\ busy = last.busyPrev

\* A declined delete of a note that has an image, with a draft in the form.
C12_Witness ==
  /\ last.kind = "delete"
  /\ ~last.confirmed
  /\ last.note.imagePath # NoPath
  /\ \E i \in DOMAIN notes : notes[i] = last.note
  /\ formData.title # ""
  /\ file # NoFile

\* C13: after a successful fetch the list is exactly the sequence of records
\* the store returned, in the store's order; a record with an imagePath
\* carries the imageUrl resolved for that path, a record without is
\* unchanged; no entry of the previous list survives unless returned.
C13_FetchReplacesList ==
  last.kind = "fetch" /\ last.live /\ last.outcome = "done" =>
    LET items == last.calls[1].data
    IN  /\ Len(notes) = Len(items)
        /\ \A i \in DOMAIN items :
             /\ notes[i].id = items[i].id
             /\ notes[i].title = items[i].title
             /\ notes[i].content = items[i].content
             /\ notes[i].imagePath = items[i].imagePath
             /\ IF items[i].imagePath # NoPath
                THEN notes[i].imageUrl = <<"signed">> \o items[i].imagePath
                ELSE notes[i] = items[i]
        /\ Len(last.calls) = 1 =>
             items = IF last.calls[1].res = "ok" THEN records ELSE <<>>

\* A fetch returned two records, the first without and the second with an
\* image, to a list that held something else.
C13_Witness ==
  /\ last.kind = "fetch"
  /\ last.live
  /\ last.outcome = "done"
  /\ AllOk(last.calls)
  /\ Len(notes) = 2
  /\ notes[1].imagePath = NoPath
  /\ notes[2].imageUrl # NoUrl
  /\ last.notes0 # <<>>
  /\ last.notes0 # notes

\* C14: when the remove call of a delete fails, Note.delete is never issued
\* for that delete, the record still exists in the store and the note is
\* still in the list.
C14_BlobDeleteFailureKeepsNote ==
  last.kind = "delete" /\ last.outcome = "failed"
    /\ last.calls[1].op = "remove" /\ last.calls[1].res = "throw" =>
      /\ Len(last.calls) = 1
      /\ \E i \in DOMAIN records : records[i].id = last.note.id
      /\ last.live => /\ notes = last.notes0
                      /\ \E i \in DOMAIN notes : notes[i] = last.note

\* C15: after a create or a delete ended in a failure that left the store
\* half changed, a manual refresh whose calls do not reject replaces the
\* list with exactly the current records of the store (each with the
\* imageUrl of its imagePath).
C15_RefreshReconciles ==
  last.kind = "fetch" /\ last.live /\ last.after.partial
    /\ (\A k \in DOMAIN last.calls : last.calls[k].res # "throw") =>
      /\ last.outcome = "done"
      /\ Len(notes) = Len(records)
      /\ \A i \in DOMAIN records : [notes[i] EXCEPT !.imageUrl = NoUrl] = records[i]
      /\ \A i \in DOMAIN records :
           notes[i].imageUrl # NoUrl <=> records[i].imagePath # NoPath

\* C16: a successful delete removes exactly the entries whose id is the
\* deleted note's id, leaves the other entries and their order unchanged,
\* and does not touch title, content or the file selection.
C16_DeleteFilters ==
  last.kind = "delete" /\ last.live /\ last.outcome = "done" =>
    /\ notes = last.notes1
    /\ notes = SelectSeq(last.notes0, LAMBDA n : n.id # last.note.id)
    /\ Len(notes) = Len(last.notes0) - 1
    /\ last.draft1 = last.draftPrev
    /\ Draft(formData, file) = last.draftPrev

\* The first of two notes was deleted while a draft with a file was in the
\* form: the second is what is left.
C16_Witness ==
  /\ last.kind = "delete"
  /\ last.live
  /\ last.outcome = "done"
  /\ AllOk(last.calls)
  /\ Len(last.notes0) = 2
  /\ last.notes0[1] = last.note
  /\ notes = <<last.notes0[2]>>
  /\ formData.title # ""
  /\ file # NoFile

\* C17: no two entries of the list have the same id, whatever sequence of
\* fetches, creates, deletes and automatic fetches has run.
C17_UniqueIds ==
  \A i, j \in DOMAIN notes : notes[i].id = notes[j].id => i = j

\* Two notes in the list, the second just appended by a create.
C17_Witness ==
  /\ last.kind = "create"
  /\ last.live
  /\ last.outcome = "done"
  /\ Len(notes) = 2
  /\ notes[1].id # notes[2].id

\* C18: every element of the list is a record of the store that has an id,
\* also after a create whose Note.create or Note.update response resolves
\* without a record.
C18_EntriesHaveId ==
  \A i \in DOMAIN notes : notes[i] # NullNote /\ notes[i].id # NoId

\* C19: a create issues no getUrl; right after a successful create with a
\* file the appended entry has an imagePath and no imageUrl, and an entry
\* gets its imageUrl only in the step that ends a successful fetch.
C19_CreateDoesNotSign ==
  [][/\ \A t \in tasks' : t.kind = "create" =>
          \A k \in DOMAIN t.calls : t.calls[k].op # "getUrl"
     /\ last'.kind = "create" =>
          \A k \in DOMAIN last'.calls : last'.calls[k].op # "getUrl"
     /\ last'.kind = "create" /\ last'.live /\ last'.outcome = "done"
          /\ AllOk(last'.calls) /\ last'.file # NoFile =>
            /\ notes' # <<>>
            /\ notes'[Len(notes')].id = last'.note.id
            /\ notes'[Len(notes')].imagePath # NoPath
            /\ notes'[Len(notes')].imageUrl = NoUrl
     /\ (\E i \in DOMAIN notes' :
           /\ notes'[i].imageUrl # NoUrl
           /\ \A j \in DOMAIN notes : notes[j] # notes'[i]) =>
          last'.kind = "fetch" /\ last'.outcome = "done" /\ AllOk(last'.calls)
    ]_vars

\* A create with a file just succeeded: its entry has a path and no url.
C19_Witness ==
  /\ last.kind = "create"
  /\ last.live
  /\ last.outcome = "done"
  /\ AllOk(last.calls)
  /\ last.file # NoFile
  /\ notes # <<>>
  /\ notes[Len(notes)].imagePath # NoPath
  /\ notes[Len(notes)].imageUrl = NoUrl

====
